---- MODULE Spec2Model ----
(***************************************************************************)
(* NativeJIT::Packed  (src/inc/NativeJIT/Packed.h).                        *)
(*                                                                         *)
(* An unsigned __int64 is modelled as the set of the positions of its one  *)
(* bits, a subset of 0..63, so that shifts, masks and the loss of high     *)
(* bits are exact.  A 32-bit int/unsigned is a subset of 0..31.            *)
(*                                                                         *)
(* A schema type Packed<Wn, Packed<..., Packed<W1, void>>> is the sequence *)
(* of its levels, innermost (first pushed) field first; each level records *)
(* its template argument W and the constant c_fieldSizes computed when the *)
(* level was instantiated.  <<>> is Packed<0, void>.                       *)
(***************************************************************************)
EXTENDS Integers, Sequences, FiniteSets

VARIABLES
    type,      \* static type of the current packed value (sequence of levels)
    cur,       \* the current packed value: [m_fields |-> bits]
    recv,      \* the object the last call was made on, as the call left it
               \* (after the static Create: the object created)
    ret,       \* unsigned __int64 returned by the last Back/GetBits/conversion
    op,        \* the last call: [name, X, value]
    base,      \* for a Pop or Back right after a Push: that Push and its receiver
    pushed     \* the values pushed for the fields of `type`, while all of them fit

vars == <<type, cur, recv, ret, op, base, pushed>>

---------------------------------------------------------------------------
(* Bounds of the model *)

\* most fields a value of the run-time specification is given
MaxFields == 3

\* widths X tried by Push<X> in the run-time specification
Widths == {3, 4, 32, 63, 64}
\* widths X tried by Push<X> in the type-level specification
TypeWidths == {0, 1, 8, 16, 255}
\* values handed to Push: 5, 9
Values == {{0, 2}, {0, 3}}
\* raw integers handed to Create: 2^63, 2^64 - 1
RawValues == {{63}, 0..63}

---------------------------------------------------------------------------
(* Machine integers *)

U64Bits == 0..63

\* x << k on unsigned __int64, 0 <= k < 64: bits moved past bit 63 are lost
Shl64(x, k) == {i + k : i \in {j \in x : j + k <= 63}}

\* x >> k on unsigned __int64, 0 <= k < 64
Shr64(x, k) == {i - k : i \in {j \in x : j >= k}}

\* x << k on a 32-bit unsigned, 0 <= k < 32
Shl32(x, k) == {i + k : i \in {j \in x : j + k <= 31}}

\* the one bits of a small non-negative number
BitsOf(n) == {i \in 0..30 : (n \div (2^i)) % 2 = 1}

\* m_fields << X: a shift count of 64 or more is undefined; the builds either
\* use the low six bits of the count (the shift instruction) or fold to 0
ShlOutcomes(x, k) ==
    IF k < 64 THEN {Shl64(x, k)} ELSE {Shl64(x, k % 64), {}}

\* m_fields >> W: as for ShlOutcomes
ShrOutcomes(x, k) ==
    IF k < 64 THEN {Shr64(x, k)} ELSE {Shr64(x, k % 64), {}}

\* (1 << W) - 1 computed in int and converted to unsigned __int64.
\*   W <= 30: 2^W - 1.   W = 31: INT_MIN - 1 wraps to INT_MAX.
\*   W >= 32: the shift is undefined; the builds either use the low five
\*   bits of the count, or fold 1 << W to 0, and 0 - 1 = -1 sign-extends to
\*   all 64 bits.
MaskOutcomes(W) ==
    IF W < 32 THEN {0..(W - 1)} ELSE {0..((W % 32) - 1), U64Bits}

\* W << k computed in 32-bit unsigned, then widened: k >= 32 is undefined
\* (low five bits of the count, or folded to 0)
FieldShiftOutcomes(W, k) ==
    IF k < 32 THEN {Shl32(BitsOf(W), k)} ELSE {Shl32(BitsOf(W), k % 32), {}}

---------------------------------------------------------------------------
(* Schema types: the three specializations of the template *)

\* which specialization a type selects: Packed<0, void>, Packed<W, void>
\* or the primary template Packed<W, REST>
Specialization(t) ==
    IF Len(t) = 0 THEN "Empty"
    ELSE IF Len(t) = 1 THEN "Terminal"
    ELSE "General"

\* REST of Packed<W, REST>
RestOf(t) == SubSeq(t, 1, Len(t) - 1)

\* W of Packed<W, REST>
WidthOf(t) == t[Len(t)].W

\* the static constant c_fieldCount of a type
RECURSIVE c_fieldCount(_)
c_fieldCount(t) ==
    IF Specialization(t) = "Empty" THEN 0
    ELSE IF Specialization(t) = "Terminal" THEN 1
    ELSE 1 + c_fieldCount(RestOf(t))

\* the static constant c_fieldSizes of a type
c_fieldSizes(t) ==
    IF Specialization(t) = "Empty" THEN {} ELSE t[Len(t)].c_fieldSizes

\* the types Packed<X, t> that instantiating the template can yield (one
\* for each outcome of the shift in c_fieldSizes); Packed<X, Packed<0,void>>
\* is never named by Push, which returns Packed<X, void> from the empty type
InstantiateOutcomes(t, X) ==
    IF Specialization(t) = "Empty"
    THEN {<<[W |-> X, c_fieldSizes |-> BitsOf(X)]>>}
    ELSE {Append(t, [W |-> X, c_fieldSizes |-> sh \cup c_fieldSizes(t)]) :
            sh \in FieldShiftOutcomes(X, c_fieldCount(t) * 8)}

\* whether the call t.Push<X>(...) compiles
PushCompiles(t, X) ==
    IF Specialization(t) = "Empty" THEN X # 0
    ELSE IF Specialization(t) = "Terminal" THEN TRUE
    ELSE X + c_fieldCount(RestOf(t)) <= 8

\* mutant: Packed<W, void> given a Pop as well
HasPop_AnyField(t) == Specialization(t) # "Empty"

\* whether the type has a member Pop
HasPop(t) == Specialization(t) = "General"

\* the return type of Pop
PopType(t) == RestOf(t)

\* whether the type has the members Create, Back, GetBits, m_fields
HasValue(t) == Specialization(t) # "Empty"

---------------------------------------------------------------------------
(* Member functions.  A call on a receiver yields the receiver as the     *)
(* call leaves it (self) and the value returned (result); a call whose    *)
(* behaviour is undefined yields one such record per outcome.             *)

\* mutant: the value stored through a 32-bit unsigned
CreateGeneral_Truncated(value) == [m_fields |-> value \cap 0..31]

CreateGeneral(value) == [m_fields |-> value]

CreateTerminal(value) == [m_fields |-> value]

Create(t, value) ==
    IF Specialization(t) = "General" THEN CreateGeneral(value)
    ELSE CreateTerminal(value)

\* mutant: m_fields updated in place before the copy is returned
PushGeneral_InPlace(self, X, value) ==
    {[self |-> CreateGeneral(sh \cup value), result |-> CreateGeneral(sh \cup value)] :
        sh \in ShlOutcomes(self.m_fields, X)}

\* Packed<W, REST>::Push<X>
PushGeneral(self, X, value) ==
    {[self |-> self, result |-> CreateGeneral(sh \cup value)] :
        sh \in ShlOutcomes(self.m_fields, X)}

\* mutant: value masked to X bits before it is or-ed in
PushTerminal_Masked(self, X, value) ==
    {[self |-> self, result |-> CreateGeneral(sh \cup (value \cap 0..(X - 1)))] :
        sh \in ShlOutcomes(self.m_fields, X)}

\* Packed<W, void>::Push<X>
PushTerminal(self, X, value) ==
    {[self |-> self, result |-> CreateGeneral(sh \cup value)] :
        sh \in ShlOutcomes(self.m_fields, X)}

\* Packed<0, void>::Push<X>, a static member
PushEmpty(self, X, value) ==
    {[self |-> self, result |-> CreateTerminal(value)]}

\* mutant: one bit of the popped field left behind
PopGeneral_OffByOne(self, W, rest) ==
    {[self |-> self, result |-> Create(rest, sr)] :
        sr \in ShrOutcomes(self.m_fields, W - 1)}

\* Packed<W, REST>::Pop, returning REST
PopGeneral(self, W, rest) ==
    {[self |-> self, result |-> Create(rest, sr)] :
        sr \in ShrOutcomes(self.m_fields, W)}

\* Packed<W, REST>::Back
BackGeneral(self, W) ==
    {[self |-> self, result |-> self.m_fields \cap mask] :
        mask \in MaskOutcomes(W)}

\* Packed<W, void>::Back
BackTerminal(self, W) ==
    {[self |-> self, result |-> self.m_fields \cap mask] :
        mask \in MaskOutcomes(W)}

GetBitsGeneral(self) == [self |-> self, result |-> self.m_fields]

GetBitsTerminal(self) == [self |-> self, result |-> self.m_fields]

\* operator unsigned __int64
ConvGeneral(self) == [self |-> self, result |-> self.m_fields]

ConvTerminal(self) == [self |-> self, result |-> self.m_fields]

PushCalls(t, self, X, value) ==
    IF Specialization(t) = "Empty" THEN PushEmpty(self, X, value)
    ELSE IF Specialization(t) = "Terminal" THEN PushTerminal(self, X, value)
    ELSE PushGeneral(self, X, value)

BackCalls(t, self) ==
    IF Specialization(t) = "Terminal" THEN BackTerminal(self, WidthOf(t))
    ELSE BackGeneral(self, WidthOf(t))

GetBitsCall(t, self) ==
    IF Specialization(t) = "Terminal" THEN GetBitsTerminal(self)
    ELSE GetBitsGeneral(self)

ConvCall(t, self) ==
    IF Specialization(t) = "Terminal" THEN ConvTerminal(self)
    ELSE ConvGeneral(self)

---------------------------------------------------------------------------
(* The run-time state machine *)

NoObject == [m_fields |-> {}]
NoOp == [name |-> "none", X |-> 0, value |-> {}]
NoBase == [valid |-> FALSE, type |-> <<>>, obj |-> NoObject, X |-> 0, value |-> {}]

\* v < 2^X
Fits(v, X) == v \subseteq 0..(X - 1)

Init ==
    /\ type = <<>>
    /\ cur = NoObject
    /\ recv = [type |-> <<>>, obj |-> NoObject]
    /\ ret = {}
    /\ op = NoOp
    /\ base = NoBase
    /\ pushed = [vals |-> <<>>, clean |-> TRUE]

\* the Push that produced cur, if the last call was one
LastPush ==
    IF op.name = "Push"
    THEN [valid |-> TRUE, type |-> recv.type, obj |-> recv.obj,
          X |-> op.X, value |-> op.value]
    ELSE NoBase

\* p.Push<X>(value); the result becomes the current value
Push(X, value) ==
    /\ Len(type) < MaxFields
    /\ PushCompiles(type, X)
    /\ \E call \in PushCalls(type, cur, X, value), t \in InstantiateOutcomes(type, X) :
          /\ type' = t
          /\ cur' = call.result
          /\ recv' = [type |-> type, obj |-> call.self]
    /\ ret' = {}
    /\ op' = [name |-> "Push", X |-> X, value |-> value]
    /\ base' = NoBase
    /\ pushed' = IF pushed.clean /\ Fits(value, X)
                 THEN [vals |-> Append(pushed.vals, value), clean |-> TRUE]
                 ELSE [vals |-> <<>>, clean |-> FALSE]

\* p.Pop(); the result becomes the current value
Pop ==
    /\ HasPop(type)
    /\ \E call \in PopGeneral(cur, WidthOf(type), PopType(type)) :
          /\ cur' = call.result
          /\ recv' = [type |-> type, obj |-> call.self]
    /\ type' = PopType(type)
    /\ ret' = {}
    /\ op' = [name |-> "Pop", X |-> 0, value |-> {}]
    /\ base' = LastPush
    /\ pushed' = IF pushed.clean
                 THEN [pushed EXCEPT !.vals = SubSeq(@, 1, Len(@) - 1)]
                 ELSE pushed

\* p.Back()
Back ==
    /\ HasValue(type)
    /\ \E call \in BackCalls(type, cur) :
          /\ ret' = call.result
          /\ cur' = call.self
          /\ recv' = [type |-> type, obj |-> call.self]
    /\ op' = [name |-> "Back", X |-> 0, value |-> {}]
    /\ base' = LastPush
    /\ UNCHANGED <<type, pushed>>

\* p.GetBits()
GetBits ==
    /\ HasValue(type)
    /\ LET call == GetBitsCall(type, cur) IN
          /\ ret' = call.result
          /\ cur' = call.self
          /\ recv' = [type |-> type, obj |-> call.self]
    /\ op' = [name |-> "GetBits", X |-> 0, value |-> {}]
    /\ base' = NoBase
    /\ UNCHANGED <<type, pushed>>

\* the implicit conversion of p to unsigned __int64
Conv ==
    /\ HasValue(type)
    /\ LET call == ConvCall(type, cur) IN
          /\ ret' = call.result
          /\ cur' = call.self
          /\ recv' = [type |-> type, obj |-> call.self]
    /\ op' = [name |-> "Conv", X |-> 0, value |-> {}]
    /\ base' = NoBase
    /\ UNCHANGED <<type, pushed>>

\* T::Create(raw) for the current type T, a static member
CreateRaw(raw) ==
    /\ HasValue(type)
    /\ cur' = Create(type, raw)
    /\ recv' = [type |-> type, obj |-> cur']
    /\ ret' = {}
    /\ op' = [name |-> "Create", X |-> 0, value |-> raw]
    /\ base' = NoBase
    /\ pushed' = [vals |-> <<>>, clean |-> FALSE]
    /\ UNCHANGED type

Next ==
    \/ \E X \in Widths, value \in Values : Push(X, value)
    \/ Pop
    \/ Back
    \/ GetBits
    \/ Conv
    \/ \E raw \in RawValues : CreateRaw(raw)

Spec == Init /\ [][Next]_vars

---------------------------------------------------------------------------
(* The type-level state machine: the schema types that chains of Push<X>  *)
(* and Pop instantiate, with no run-time value.  The static_assert of the  *)
(* primary template itself ends every chain of the widths tried here.     *)

InstantiatePush(X) ==
    /\ PushCompiles(type, X)
    /\ type' \in InstantiateOutcomes(type, X)
    /\ op' = [name |-> "Push", X |-> X, value |-> {}]
    /\ UNCHANGED <<cur, recv, ret, base, pushed>>

InstantiatePop ==
    /\ HasPop(type)
    /\ type' = PopType(type)
    /\ op' = [name |-> "Pop", X |-> 0, value |-> {}]
    /\ UNCHANGED <<cur, recv, ret, base, pushed>>

TypeNext ==
    \/ \E X \in TypeWidths : InstantiatePush(X)
    \/ InstantiatePop

TypeSpec == Init /\ [][TypeNext]_vars

---------------------------------------------------------------------------
(* Properties *)

\* the number held by the 8-bit slot i (slot 0 least significant) of a
\* 64-bit descriptor
SlotValue(d, i) ==
    LET b(j) == IF (8 * i + j) \in d THEN 2^j ELSE 0
    IN  b(0) + b(1) + b(2) + b(3) + b(4) + b(5) + b(6) + b(7)

\* ((bits << X) | value) modulo 2^64, bit by bit; just value on the empty schema
ShiftedOr(t, bits, X, value) ==
    IF t = <<>> THEN value
    ELSE {i \in U64Bits : i \in value \/ (i >= X /\ (i - X) \in bits)}

\* the schema left when Pop is applied for as long as the type has one
RECURSIVE PopAll(_)
PopAll(t) == IF HasPop(t) THEN PopAll(PopType(t)) ELSE t

\* every field of the schema has a width of at least one bit
FieldsNonEmpty(t) == \A i \in 1..Len(t) : t[i].W >= 1

\* C1: after fields f1..fn, each within its width, were pushed from the
\* empty schema and some of them popped again, Back() returns exactly the
\* value pushed for the field now outermost.
C1_RoundTrip ==
    (op.name = "Back" /\ pushed.clean /\ Len(pushed.vals) >= 1)
        => ret = pushed.vals[Len(pushed.vals)]

\* C2: for W in 1..63 and 0 <= v < 2^W, Empty.Push<W>(v).Back() = v.
C2_PushBack ==
    (/\ op.name = "Back"
     /\ base.valid
     /\ base.type = <<>>
     /\ base.X \in 1..63
     /\ Fits(base.value, base.X))
        => ret = base.value

\* C3: every schema reached by accepted Push calls (of fields at least one
\* bit wide) has fieldCount equal to the number of its fields, and at most 8.
C3_FieldCountAtMost8 ==
    FieldsNonEmpty(type)
        => (c_fieldCount(type) = Len(type) /\ c_fieldCount(type) <= 8)

\* C4: on a schema with k fields, Push<X> is accepted for every (non-zero)
\* width X whenever k + 1 <= 8.
C4_GuardCountsFields ==
    FieldsNonEmpty(type)
        => \A X \in TypeWidths \ {0} :
              Len(type) + 1 <= 8 => PushCompiles(type, X)

\* C5: for a schema of n <= 8 fields of widths W1..Wn in 1..255, slot i-1
\* of fieldSizeDescriptor holds Wi, for every i in 1..n.
C5_DescriptorSlots ==
    (Len(type) \in 1..8 /\ \A i \in 1..Len(type) : type[i].W \in 1..255)
        => \A i \in 1..Len(type) : SlotValue(c_fieldSizes(type), i - 1) = type[i].W

\* C6 as stated: every schema with at least one field has Pop, and popping
\* for as long as possible ends in the empty schema.
C6_PopOnEveryField ==
    Len(type) >= 1 => (HasPop(type) /\ PopAll(type) = <<>>)

\* C6 as amended: exactly the schemas with at least two fields have Pop; Pop
\* removes the outermost field; from n >= 1 fields, n - 1 Pops are possible
\* and end in the one-field schema of the first field, which has no Pop.
C6_PopDownToOneField ==
    /\ HasPop(type) <=> Len(type) >= 2
    /\ HasPop(type) => PopType(type) = [i \in 1..(Len(type) - 1) |-> type[i]]
    /\ Len(type) >= 1 => PopAll(type) = <<type[1]>>

C6_Witness == op.name = "Pop" /\ Len(type) = 1 /\ ~HasPop(type)

\* C7: Create(x) stores x verbatim: GetBits() returns x, and the implicit
\* conversion returns what GetBits() returns, for every packed value.
C7_CreateStoresRaw ==
    HasValue(type) =>
        /\ ConvCall(type, cur).result = GetBitsCall(type, cur).result
        /\ op.name = "Create" => GetBitsCall(type, cur).result = op.value
        /\ op.name = "GetBits" => ret = cur.m_fields

C7_Witness == op.name = "Create" /\ op.value = U64Bits /\ Len(type) >= 2

C9_Immutable ==
    [][/\ op'.name # "Create" => (recv'.obj = cur /\ recv'.type = type)
       /\ op'.name \in {"Back", "GetBits", "Conv"} => (cur' = cur /\ type' = type)]_vars

C9_Witness ==
    op.name = "Push" /\ Len(recv.type) >= 2 /\ cur # recv.obj

C10_OverflowCase ==
    /\ op.name = "Pop"
    /\ base.valid
    /\ Len(base.type) >= 1
    /\ base.X < 64
    /\ Fits(base.value, base.X)
    /\ ~(base.obj.m_fields \subseteq 0..(63 - base.X))

====
